---- MODULE Spec2Model ----
(***************************************************************************)
(* CCM/CSI migration of a KubeOne cluster (pkg/tasks/ccm_csi_migration.go). *)
(* The state is the state.State object the tasks read, the per-node         *)
(* position of the two control-plane tasks, and the part of the live        *)
(* cluster the tasks write: node schedulability and PersistentVolumes.      *)
(***************************************************************************)
EXTENDS Integers, Sequences, FiniteSets, TLC

\* ------------------------------------------------------------------ bounds
NumNodes == 3
MaxStaticWorkers == 1
MaxMachines == 2
MaxPVs == 3
MaxStartRunPVs == 1
MaxRuns == 2
MaxAnnotatorCalls == 3
MaxExternalWrites == 1

Nodes == 1..NumNodes

\* ------------------------------------------------------- program constants
provisionedByAnnotation == "pv.kubernetes.io/provisioned-by"
provisionedByOpenStackInTreeCinder == "kubernetes.io/cinder"
provisionedByOpenStackCSICinder == "cinder.csi.openstack.org"
ExternalCloudProviderKubeletFlag == "ExternalCloudProvider"

\* seconds
SettleTimeout == 30
PollInterval == 5
StaticPodTimeout == 120
KubeletTimeout == 120

RunSequentially == "RunSequentially"
RunParallel == "RunParallel"

\* ------------------------------------------------------------------ errors
\* An error is the chain of its messages, outermost first (errors.Wrap prepends).
nil == <<>>
errorsNew(msg) == <<msg>>
errorsWrap(err, msg) == <<msg>> \o err
ErrExternalRequired == ".cloudProvider.external must be enabled to start the migration"
ErrUnsupportedProvider == "ccm/csi migration is not supported for the specified provider"
ErrAlreadyExternal == "the cluster is already running external ccm"
ErrInProgress == "the ccm/csi migration is currently in progress, run command with --complete to finish it"
ErrCSIConfigRequired == "the ccm/csi migration for vsphere requires providing csi configuration using .cloudProvider.csiConfig field"
ErrStaticWorkers == "the ccm/csi migration for cluster with static worker nodes is currently unsupported"
ErrClientsetNotInitialized == "clientset not initialized"
ErrPodKeyRequired == "static pod name and namespace are required"
ErrListMachines == "failed to list machines"
ErrNotAllMachines == "not all machines are rolled-out or migration not started yet"
ErrRender == "script render failed"
ErrRunRaw == "remote command failed"
ErrWaitTimeout == "timed out waiting for the condition"
ErrAPIServerRollout == "API server failed to come up for 2m0s"
ErrCordon == "failed to cordon follower control plane node"
ErrDrain == "failed to drain follower control plane node"
ErrSystemdStatus == "systemd status failed"
ErrUncordon == "failed to uncordon follower control plane node"
ErrDynamicClientNotInitialized == "dynamic client is not initialized"
ErrListPVs == "failed to list persistentvolumes"
ErrPatchPV == "failed to patch persistnetvolume"
errPatchPVNameless(name) == ErrPatchPV
\* errors.Wrapf's message: the volume's name is part of it
errPatchPV(name) == ErrPatchPV \o " " \o name

VARIABLES
    cfg,            \* s.Cluster, s.LiveCluster.CCMStatus, s.CCMMigrationComplete
    dynamicClient,  \* s.DynamicClient: TRUE when initialized, FALSE when nil
    phase,          \* the task of the run that is executing
    runErr,         \* the error the run (or the called function) returned, nil while none
    regen,          \* per node: position in regenerateControlPlaneManifestsInternal
    kubelet,        \* per node: position in updateKubeletConfigInternal
    elapsed,        \* per node: seconds since the running poll started
    nodeErr,        \* per node: the error its task function returned
    regenLog,       \* per node: what regeneration achieved (command run, pods seen healthy)
    unschedulable,  \* per node: Node.Spec.Unschedulable on the live cluster
    accessorUsed,   \* TRUE once s.DynamicClient issued a Get, List or Patch
    machines,       \* readyToCompleteMigration's local MachineList
    pvs,            \* the PersistentVolumes stored on the live cluster
    pvs0,           \* the PersistentVolumes stored when the run began
    pvList,         \* migrateOpenStackPVs' local pvList
    pvIdx,          \* migrateOpenStackPVs' loop index (0 before the List call)
    patchLog,       \* the Patch calls issued, in order
    runs,           \* invocations of the command so far, the running one included
    history,        \* what each earlier invocation returned and did, oldest first
    cancelled,      \* s.Context is cancelled
    extWritten,     \* what an external writer wrote after the List snapshot: volume, value
    tick,           \* the last condition call of a directly called waitForStaticPodReady
    podKey          \* staticPodName, staticPodNamespace of a directly called waitForStaticPodReady

ctxVars == <<cfg, dynamicClient, runs, history, cancelled, extWritten, tick, podKey>>
nodeVars == <<regen, kubelet, elapsed, nodeErr, regenLog, unschedulable>>
pvVars == <<pvs, pvs0, pvList, pvIdx, patchLog>>
vars == <<cfg, dynamicClient, phase, runErr, regen, kubelet, elapsed, nodeErr,
          regenLog, unschedulable, accessorUsed, machines, pvs, pvs0, pvList, pvIdx, patchLog,
          runs, history, cancelled, extWritten, tick, podKey>>

\* ---------------------------------------------------------- configuration
Configs ==
    [External: BOOLEAN,
     CSIMigrationSupported: BOOLEAN,
     InTreeCloudProviderEnabled: BOOLEAN,
     ExternalCCMDeployed: BOOLEAN,
     CCMMigrationComplete: BOOLEAN,
     Vsphere: BOOLEAN,
     CSIConfig: {"", "csi-config"},
     StaticWorkersHosts: 0..MaxStaticWorkers]

validateExternalCloudProviderConfigNoStaticCheck(s) ==
    IF ~s.External THEN errorsNew(ErrExternalRequired)
    ELSE IF ~s.CSIMigrationSupported THEN errorsNew(ErrUnsupportedProvider)
    ELSE IF ~s.InTreeCloudProviderEnabled THEN errorsNew(ErrAlreadyExternal)
    ELSE IF s.ExternalCCMDeployed /\ ~s.CCMMigrationComplete THEN errorsNew(ErrInProgress)
    ELSE IF s.Vsphere /\ s.CSIConfig = "" THEN errorsNew(ErrCSIConfigRequired)
    ELSE nil

validateExternalCloudProviderConfigNoGuard(s) ==
    IF ~s.External THEN errorsNew(ErrExternalRequired)
    ELSE IF ~s.CSIMigrationSupported THEN errorsNew(ErrUnsupportedProvider)
    ELSE IF ~s.InTreeCloudProviderEnabled THEN errorsNew(ErrAlreadyExternal)
    ELSE IF s.Vsphere /\ s.CSIConfig = "" THEN errorsNew(ErrCSIConfigRequired)
    ELSE IF s.StaticWorkersHosts > 0 THEN errorsNew(ErrStaticWorkers)
    ELSE nil

validateExternalCloudProviderConfigLiveFirst(s) ==
    IF ~s.InTreeCloudProviderEnabled THEN errorsNew(ErrAlreadyExternal)
    ELSE IF s.ExternalCCMDeployed /\ ~s.CCMMigrationComplete THEN errorsNew(ErrInProgress)
    ELSE IF ~s.External THEN errorsNew(ErrExternalRequired)
    ELSE IF ~s.CSIMigrationSupported THEN errorsNew(ErrUnsupportedProvider)
    ELSE IF s.Vsphere /\ s.CSIConfig = "" THEN errorsNew(ErrCSIConfigRequired)
    ELSE IF s.StaticWorkersHosts > 0 THEN errorsNew(ErrStaticWorkers)
    ELSE nil

validateExternalCloudProviderConfigGuardFirst(s) ==
    IF ~s.External THEN errorsNew(ErrExternalRequired)
    ELSE IF ~s.CSIMigrationSupported THEN errorsNew(ErrUnsupportedProvider)
    ELSE IF s.ExternalCCMDeployed /\ ~s.CCMMigrationComplete THEN errorsNew(ErrInProgress)
    ELSE IF ~s.InTreeCloudProviderEnabled THEN errorsNew(ErrAlreadyExternal)
    ELSE IF s.Vsphere /\ s.CSIConfig = "" THEN errorsNew(ErrCSIConfigRequired)
    ELSE IF s.StaticWorkersHosts > 0 THEN errorsNew(ErrStaticWorkers)
    ELSE nil

validateExternalCloudProviderConfigGuardAlways(s) ==
    IF ~s.External THEN errorsNew(ErrExternalRequired)
    ELSE IF ~s.CSIMigrationSupported THEN errorsNew(ErrUnsupportedProvider)
    ELSE IF ~s.InTreeCloudProviderEnabled THEN errorsNew(ErrAlreadyExternal)
    ELSE IF s.ExternalCCMDeployed THEN errorsNew(ErrInProgress)
    ELSE IF s.Vsphere /\ s.CSIConfig = "" THEN errorsNew(ErrCSIConfigRequired)
    ELSE IF s.StaticWorkersHosts > 0 THEN errorsNew(ErrStaticWorkers)
    ELSE nil

validateExternalCloudProviderConfig(s) ==
    IF ~s.External THEN errorsNew(ErrExternalRequired)
    ELSE IF ~s.CSIMigrationSupported THEN errorsNew(ErrUnsupportedProvider)
    ELSE IF ~s.InTreeCloudProviderEnabled THEN errorsNew(ErrAlreadyExternal)
    ELSE IF s.ExternalCCMDeployed /\ ~s.CCMMigrationComplete THEN errorsNew(ErrInProgress)
    ELSE IF s.Vsphere /\ s.CSIConfig = "" THEN errorsNew(ErrCSIConfigRequired)
    ELSE IF s.StaticWorkersHosts > 0 THEN errorsNew(ErrStaticWorkers)
    ELSE nil

\* ------------------------------------------------------ machine roll-out
\* A Machine is the map of its kubelet flags (common.GetKubeletFlags).
FlagStrings == {"true", "1", "false", "", "yes"}
MachineShapes ==
    {[kubeletFlags |-> [k \in {} |-> ""]]}
    \cup {[kubeletFlags |-> [k \in {ExternalCloudProviderKubeletFlag} |-> v]] : v \in FlagStrings}
MachineLists == UNION {[1..n -> MachineShapes] : n \in 0..MaxMachines}

\* Go map lookup: the zero value "" for a missing key.
mapLookup(m, k) == IF k \in DOMAIN m THEN m[k] ELSE ""

\* strconv.ParseBool: (value, error)
strconvParseBool(str) ==
    IF str \in {"1", "t", "T", "TRUE", "true", "True"} THEN [val |-> TRUE, err |-> FALSE]
    ELSE IF str \in {"0", "f", "F", "FALSE", "false", "False"} THEN [val |-> FALSE, err |-> FALSE]
    ELSE [val |-> FALSE, err |-> TRUE]

machineNotMigratedErrOnly(m) ==
    LET flag == mapLookup(m.kubeletFlags, ExternalCloudProviderKubeletFlag)
        r == strconvParseBool(flag)
    IN  r.err

\* the loop body's test: !boolFlag || err != nil
machineNotMigrated(m) ==
    LET flag == mapLookup(m.kubeletFlags, ExternalCloudProviderKubeletFlag)
        r == strconvParseBool(flag)
    IN  ~r.val \/ r.err

RECURSIVE machinesMigrated(_, _)
machinesMigrated(items, i) ==
    IF i > Len(items) THEN TRUE
    ELSE IF machineNotMigrated(items[i]) THEN FALSE
    ELSE machinesMigrated(items, i + 1)

readyToCompleteMigrationUngated(dc, listing) ==
    IF ~dc THEN errorsNew(ErrClientsetNotInitialized)
    ELSE nil

readyToCompleteMigrationUnwrapped(dc, listing) ==
    IF ~dc THEN errorsNew(ErrClientsetNotInitialized)
    ELSE IF listing.err THEN errorsNew("list failed")
    ELSE IF ~machinesMigrated(listing.items, 1) THEN errorsNew(ErrNotAllMachines)
    ELSE nil

\* listing: [err: BOOLEAN, items: the MachineList] as returned by s.DynamicClient.List
readyToCompleteMigration(dc, listing) ==
    IF ~dc THEN errorsNew(ErrClientsetNotInitialized)
    ELSE IF listing.err THEN errorsWrap(errorsNew("list failed"), ErrListMachines)
    ELSE IF ~machinesMigrated(listing.items, 1) THEN errorsNew(ErrNotAllMachines)
    ELSE nil

\* --------------------------------------------------- persistent volumes
\* A PersistentVolume is the map of its annotations.
otherAnnotation == "volume.beta.kubernetes.io/storage-class"
PVShapes ==
    {[annotations |-> [k \in {} |-> ""]],
     [annotations |-> [k \in {provisionedByAnnotation, otherAnnotation} |->
         IF k = provisionedByAnnotation THEN provisionedByOpenStackInTreeCinder ELSE "standard"]],
     [annotations |-> [k \in {provisionedByAnnotation} |-> provisionedByOpenStackCSICinder]],
     [annotations |-> [k \in {provisionedByAnnotation, otherAnnotation} |->
         IF k = provisionedByAnnotation THEN "ebs.csi.aws.com" ELSE "standard"]]}
\* pv.Name: the stored volumes are named by their place in the list
pvName(i) == "pv-" \o ToString(i)
PVListsUpTo(max) == UNION {[1..n -> PVShapes] : n \in 0..max}

pvRewrittenInTree(pv) ==
    [pv EXCEPT !.annotations =
        [k \in DOMAIN pv.annotations \cup {provisionedByAnnotation} |->
            IF k = provisionedByAnnotation THEN provisionedByOpenStackInTreeCinder
            ELSE pv.annotations[k]]]

pvNeedsPatchUnlessCSI(pv) ==
    mapLookup(pv.annotations, provisionedByAnnotation) # provisionedByOpenStackCSICinder

\* pv.Annotations[provisionedByAnnotation] == provisionedByOpenStackInTreeCinder
pvNeedsPatch(pv) ==
    mapLookup(pv.annotations, provisionedByAnnotation) = provisionedByOpenStackInTreeCinder

\* pv.Annotations[provisionedByAnnotation] = provisionedByOpenStackCSICinder
pvRewritten(pv) ==
    [pv EXCEPT !.annotations =
        [k \in DOMAIN pv.annotations \cup {provisionedByAnnotation} |->
            IF k = provisionedByAnnotation THEN provisionedByOpenStackCSICinder
            ELSE pv.annotations[k]]]

\* client.MergeFrom(oldPv): the merge patch carries the annotations that differ
mergeFrom(old, new) ==
    [k \in {a \in DOMAIN new.annotations :
                a \notin DOMAIN old.annotations \/ old.annotations[a] # new.annotations[a]}
        |-> new.annotations[k]]

\* the API server's application of a merge patch to the stored object
applyPatch(live, patch) ==
    [live EXCEPT !.annotations =
        [k \in DOMAIN live.annotations \cup DOMAIN patch |->
            IF k \in DOMAIN patch THEN patch[k] ELSE live.annotations[k]]]

\* ------------------------------------------------------------- polling
\* What one s.DynamicClient.Get of a static pod returns.
ConditionTypes == {"Ready", "ContainersReady"}
PodObservations ==
    {[getErr |-> TRUE, phase |-> "", conditions |-> [c \in {} |-> ""]]}
    \cup {[getErr |-> FALSE, phase |-> ph, conditions |-> cs] :
             ph \in {"Pending", "Running"},
             cs \in UNION {[S -> {"True", "False"}] : S \in SUBSET ConditionTypes}}

staticPodReadyPhaseOnly(pod) ==
    IF pod.getErr THEN FALSE
    ELSE IF pod.phase # "Running" THEN FALSE
    ELSE TRUE

\* the condition function of waitForStaticPodReady: done or not, never an error
staticPodReady(pod) ==
    IF pod.getErr THEN FALSE
    ELSE IF pod.phase # "Running" THEN FALSE
    ELSE IF \E c \in DOMAIN pod.conditions : pod.conditions[c] # "True" THEN FALSE
    ELSE TRUE

\* What one systemdStatus(conn, "kubelet") returns: an error or the status bits.
KubeletObservations ==
    [sErr: BOOLEAN, running: BOOLEAN, restarting: BOOLEAN]

kubeletRunningOrRestarting(st) ==
    IF st.sErr THEN [done |-> FALSE, err |-> errorsNew(ErrSystemdStatus)]
    ELSE IF st.running THEN [done |-> TRUE, err |-> nil]
    ELSE [done |-> FALSE, err |-> nil]

\* the condition function of the kubelet poll: (done, error)
kubeletRunning(st) ==
    IF st.sErr THEN [done |-> FALSE, err |-> errorsNew(ErrSystemdStatus)]
    ELSE IF st.running /\ ~st.restarting THEN [done |-> TRUE, err |-> nil]
    ELSE [done |-> FALSE, err |-> nil]

pollImmediateLate(el, timeout, done, err) ==
    IF err # nil THEN [next |-> "return", err |-> err]
    ELSE IF done THEN [next |-> "return", err |-> nil]
    ELSE IF el > timeout + PollInterval THEN [next |-> "return", err |-> errorsNew(ErrWaitTimeout)]
    ELSE [next |-> "again", err |-> nil]

\* wait.PollImmediate(interval, timeout, condition) after a condition call made
\* `el` seconds into the poll: the condition runs at 0, interval, 2*interval, ...
\* and a last time when the timeout expires.
pollImmediate(el, timeout, done, err) ==
    IF err # nil THEN [next |-> "return", err |-> err]
    ELSE IF done THEN [next |-> "return", err |-> nil]
    ELSE IF el + PollInterval > timeout THEN [next |-> "return", err |-> errorsNew(ErrWaitTimeout)]
    ELSE [next |-> "again", err |-> nil]

\* ------------------------------------------------ running a task on nodes
\* s.RunTaskOnControlPlane(task, mode) over s.Cluster.ControlPlane.Hosts, in
\* list order. status is the task's per-node position: "idle" before the task
\* function is invoked for the node, "ok" / "failed" after it returned.
mayInvoke(status, i, mode) ==
    /\ status[i] = "idle"
    /\ mode = RunSequentially => \A j \in 1..(i - 1) : status[j] = "ok"

taskReturned(status, mode) ==
    IF mode = RunSequentially
    THEN (\E i \in Nodes : status[i] = "failed") \/ (\A i \in Nodes : status[i] = "ok")
    ELSE \A i \in Nodes : status[i] \in {"ok", "failed"}

taskError(status, errs) ==
    IF \E i \in Nodes : status[i] = "failed"
    THEN errs[CHOOSE i \in Nodes : status[i] = "failed" /\ \A j \in 1..(i - 1) : status[j] # "failed"]
    ELSE nil

\* the order of the tasks: the start path, and the path of a run flagged complete
nextTask(p) ==
    IF p = "Validating" THEN "RegeneratingManifests"
    ELSE IF p = "RegeneratingManifests" THEN "ReconfiguringKubelets"
    ELSE IF p = "ValidatingComplete" THEN "MigratingVolumes"
    ELSE "Done"

\* the run moves to the next task when the task returned nil and halts where it is otherwise
NodeTaskReturns(status, errs, mode) ==
    IF taskReturned(status, mode)
    THEN /\ runErr' = taskError(status, errs)
         /\ phase' = IF taskError(status, errs) = nil THEN nextTask(phase) ELSE phase
    ELSE UNCHANGED <<phase, runErr>>

regenerateControlPlaneManifestsParallel == RunParallel
regenerateControlPlaneManifestsMode == RunSequentially

updateKubeletConfigParallel == RunParallel
updateKubeletConfigMode == RunSequentially

\* ------------------------------- regenerateControlPlaneManifestsInternal
RegenSteps == {"idle", "sleep", "poll_apiserver", "poll_controller_manager", "ok", "failed"}

regenNextIgnoringPollErr(step, err) ==
    IF err # nil /\ step = "idle" THEN "failed"
    ELSE IF step = "idle" THEN "sleep"
    ELSE IF step = "sleep" THEN "poll_apiserver"
    ELSE IF step = "poll_apiserver" THEN "poll_controller_manager"
    ELSE "ok"

regenNextNoSettle(step, err) ==
    IF err # nil THEN "failed"
    ELSE IF step = "idle" THEN "poll_apiserver"
    ELSE IF step = "sleep" THEN "poll_apiserver"
    ELSE IF step = "poll_apiserver" THEN "poll_controller_manager"
    ELSE "ok"

\* where the function goes after the step at `step` returned err
regenNext(step, err) ==
    IF err # nil THEN "failed"
    ELSE IF step = "idle" THEN "sleep"
    ELSE IF step = "sleep" THEN "poll_apiserver"
    ELSE IF step = "poll_apiserver" THEN "poll_controller_manager"
    ELSE "ok"

\* node.Hostname and the names of the node's static pods
hostname(i) == "cp-" \o ToString(i)
apiserverPodName(i) == "kube-apiserver-" \o hostname(i)
controllerManagerPodName(i) == "kube-controller-manager-" \o hostname(i)
NamespaceSystem == "kube-system"
regenPodKeyFirstNode(i, step) ==
    [name |-> IF step = "poll_apiserver" THEN apiserverPodName(1)
              ELSE controllerManagerPodName(1),
     namespace |-> NamespaceSystem]

\* the pod a poll of regenerateControlPlaneManifestsInternal at `step` waits for
regenPodKey(i, step) ==
    [name |-> IF step = "poll_apiserver" THEN apiserverPodName(i)
              ELSE controllerManagerPodName(i),
     namespace |-> NamespaceSystem]

waitPreconditionErrorNameOnly(dc, key) ==
    IF ~dc THEN errorsNew(ErrClientsetNotInitialized)
    ELSE IF key.name = "" THEN errorsNew(ErrPodKeyRequired)
    ELSE nil

\* the checks of waitForStaticPodReady made before the poll starts
waitPreconditionError(dc, key) ==
    IF ~dc THEN errorsNew(ErrClientsetNotInitialized)
    ELSE IF key.name = "" \/ key.namespace = "" THEN errorsNew(ErrPodKeyRequired)
    ELSE nil

waitForStaticPodReadyPropagating(dc, key, el, pod) ==
    IF waitPreconditionError(dc, key) # nil
    THEN [next |-> "return", err |-> waitPreconditionError(dc, key)]
    ELSE pollImmediate(el, StaticPodTimeout, staticPodReady(pod),
                       IF pod.getErr THEN errorsNew("get failed") ELSE nil)

\* one condition call of waitForStaticPodReady, el seconds into the poll; with
\* a failed precondition the function returns before any call
waitForStaticPodReady(dc, key, el, pod) ==
    IF waitPreconditionError(dc, key) # nil
    THEN [next |-> "return", err |-> waitPreconditionError(dc, key)]
    ELSE pollImmediate(el, StaticPodTimeout, staticPodReady(pod), nil)

\* ------------------------------------------- updateKubeletConfigInternal
KubeletSteps == {"idle", "drain", "command", "poll_kubelet", "uncordon", "ok", "failed"}

kubeletNextUncordonAlways(step, err) ==
    IF err # nil /\ step \in {"drain", "command", "poll_kubelet"} THEN "uncordon"
    ELSE IF err # nil THEN "failed"
    ELSE IF step = "idle" THEN "drain"
    ELSE IF step = "drain" THEN "command"
    ELSE IF step = "command" THEN "poll_kubelet"
    ELSE IF step = "poll_kubelet" THEN "uncordon"
    ELSE "ok"

kubeletNextDrainBestEffort(step, err) ==
    IF err # nil /\ step # "drain" THEN "failed"
    ELSE IF step = "idle" THEN "drain"
    ELSE IF step = "drain" THEN "command"
    ELSE IF step = "command" THEN "poll_kubelet"
    ELSE IF step = "poll_kubelet" THEN "uncordon"
    ELSE "ok"

kubeletNextNoUncordon(step, err) ==
    IF err # nil THEN "failed"
    ELSE IF step = "idle" THEN "drain"
    ELSE IF step = "drain" THEN "command"
    ELSE IF step = "command" THEN "poll_kubelet"
    ELSE "ok"

\* where the function goes after the step at `step` returned err
kubeletNext(step, err) ==
    IF err # nil THEN "failed"
    ELSE IF step = "idle" THEN "drain"
    ELSE IF step = "drain" THEN "command"
    ELSE IF step = "command" THEN "poll_kubelet"
    ELSE IF step = "poll_kubelet" THEN "uncordon"
    ELSE "ok"

\* ------------------------------------------------------------------ Init
NotListed == [listed |-> FALSE, items |-> <<>>]

\* A complete run is the second phase of a migration whose configuration the
\* start phase accepted; the complete path reads no field but the flag.
RunConfigs ==
    {c \in Configs : c.CCMMigrationComplete => validateExternalCloudProviderConfig(c) = nil}

\* no condition call made
NoTick == [made |-> FALSE]

\* the names and namespaces waitForStaticPodReady is called with
PodKeys == [name : {"", apiserverPodName(1)}, namespace : {"", NamespaceSystem}]
\* no waitForStaticPodReady is called directly
NoPodKey == [name |-> "", namespace |-> ""]

IdleInit ==
    /\ runErr = nil
    /\ regen = [i \in Nodes |-> "idle"]
    /\ kubelet = [i \in Nodes |-> "idle"]
    /\ elapsed = [i \in Nodes |-> 0]
    /\ nodeErr = [i \in Nodes |-> nil]
    /\ regenLog = [i \in Nodes |-> {}]
    /\ unschedulable = [i \in Nodes |-> FALSE]
    /\ accessorUsed = FALSE
    /\ machines = NotListed
    /\ pvList = <<>>
    /\ pvIdx = 0
    /\ patchLog = <<>>
    /\ runs = 1
    /\ history = <<>>
    /\ cancelled = FALSE
    /\ extWritten = {}
    /\ tick = NoTick

\* a migration run: `kubeone migrate to-ccm-csi`, with or without --complete.
\* The start path neither lists nor patches volumes: its runs are explored on
\* clusters of at most MaxStartRunPVs volumes.
RunInit ==
    /\ cfg \in RunConfigs
    /\ dynamicClient \in BOOLEAN
    /\ pvs \in PVListsUpTo(IF cfg.CCMMigrationComplete THEN MaxPVs ELSE MaxStartRunPVs)
    /\ pvs0 = pvs
    /\ phase = IF cfg.CCMMigrationComplete THEN "ValidatingComplete" ELSE "Validating"
    /\ podKey = NoPodKey
    /\ IdleInit

\* validateExternalCloudProviderConfig called on any state.State
CallInit ==
    /\ cfg \in Configs
    /\ dynamicClient = TRUE
    /\ pvs = <<>>
    /\ pvs0 = <<>>
    /\ phase = "CallValidateStart"
    /\ podKey = NoPodKey
    /\ IdleInit

\* waitForStaticPodReady called on a state.State, of which it reads
\* s.DynamicClient only, with a pod name and a namespace
CallWaitInit ==
    /\ cfg = CHOOSE c \in RunConfigs : ~c.CCMMigrationComplete
    /\ dynamicClient \in BOOLEAN
    /\ podKey \in PodKeys
    /\ pvs = <<>>
    /\ pvs0 = <<>>
    /\ phase = "CallWaitForStaticPod"
    /\ IdleInit

Init == RunInit \/ CallInit \/ CallWaitInit

\* --------------------------------------------------------------- actions
\* A call that takes s.Context (Get, List, Patch, Cordon, Drain) fails once the
\* context is cancelled.
ctxCallOk == IF cancelled THEN {FALSE} ELSE BOOLEAN
podsSeen == IF cancelled THEN {pod \in PodObservations : pod.getErr} ELSE PodObservations

CallValidateStart ==
    /\ phase = "CallValidateStart"
    /\ runErr' = validateExternalCloudProviderConfig(cfg)
    /\ phase' = "ValidateStartReturned"
    /\ UNCHANGED <<ctxVars, nodeVars, accessorUsed, machines, pvVars>>

\* one condition call of a directly called waitForStaticPodReady; elapsed[1] is
\* the poll's clock. tick keeps the call: when it was made, what the Get
\* returned, what the poll did with it, and how many Gets have failed so far.
CallWaitTick ==
    /\ phase = "CallWaitForStaticPod"
    /\ \E pod \in podsSeen :
        LET r == waitForStaticPodReady(dynamicClient, podKey, elapsed[1], pod)
        IN  /\ tick' = IF waitPreconditionError(dynamicClient, podKey) = nil
                       THEN [made |-> TRUE, el |-> elapsed[1], pod |-> pod, r |-> r,
                             failed |-> (IF tick.made THEN tick.failed ELSE 0)
                                        + (IF pod.getErr THEN 1 ELSE 0)]
                       ELSE tick
            /\ IF r.next = "again"
               THEN /\ elapsed' = [elapsed EXCEPT ![1] = @ + PollInterval]
                    /\ UNCHANGED <<phase, runErr>>
               ELSE /\ phase' = "WaitForStaticPodReturned"
                    /\ runErr' = r.err
                    /\ UNCHANGED elapsed
    /\ accessorUsed' = (accessorUsed \/ waitPreconditionError(dynamicClient, podKey) = nil)
    /\ UNCHANGED <<podKey, cfg, dynamicClient, runs, history, cancelled, extWritten, regen, kubelet,
                   nodeErr, regenLog, unschedulable, machines, pvVars>>

ValidateStart ==
    /\ phase = "Validating" /\ runErr = nil
    /\ runErr' = validateExternalCloudProviderConfig(cfg)
    /\ phase' = IF validateExternalCloudProviderConfig(cfg) = nil
                THEN nextTask(phase) ELSE phase
    /\ UNCHANGED <<ctxVars, nodeVars, accessorUsed, machines, pvVars>>

\* render the script and s.Runner.RunRaw it
RegenRunCommand(i) ==
    /\ phase = "RegeneratingManifests" /\ runErr = nil
    /\ mayInvoke(regen, i, regenerateControlPlaneManifestsMode)
    /\ \E err \in {nil, errorsNew(ErrRender), errorsNew(ErrRunRaw)} :
        LET st == [regen EXCEPT ![i] = regenNext("idle", err)]
            es == [nodeErr EXCEPT ![i] = err]
        IN  /\ regen' = st
            /\ nodeErr' = es
            /\ regenLog' = IF err = nil THEN [regenLog EXCEPT ![i] = @ \cup {"command"}]
                           ELSE regenLog
            /\ NodeTaskReturns(st, es, regenerateControlPlaneManifestsMode)
    /\ UNCHANGED <<ctxVars, kubelet, elapsed, unschedulable, accessorUsed,
                   machines, pvVars>>

\* time.Sleep(30s)
RegenSettle(i) ==
    /\ phase = "RegeneratingManifests" /\ runErr = nil
    /\ regen[i] = "sleep"
    /\ regen' = [regen EXCEPT ![i] = regenNext("sleep", nil)]
    /\ elapsed' = [elapsed EXCEPT ![i] = 0]
    /\ UNCHANGED <<ctxVars, phase, runErr, kubelet, nodeErr, regenLog,
                   unschedulable, accessorUsed, machines, pvVars>>

\* one condition call of the poll for the API server or controller-manager pod
RegenPoll(i) ==
    /\ phase = "RegeneratingManifests" /\ runErr = nil
    /\ regen[i] \in {"poll_apiserver", "poll_controller_manager"}
    /\ accessorUsed' = (accessorUsed \/ dynamicClient)
    /\ \E pod \in podsSeen :
        LET r == waitForStaticPodReady(dynamicClient, regenPodKey(i, regen[i]), elapsed[i], pod)
            err == IF r.err = nil THEN nil ELSE errorsWrap(r.err, ErrAPIServerRollout)
            st == [regen EXCEPT ![i] = regenNext(regen[i], err)]
            es == [nodeErr EXCEPT ![i] = err]
        IN  IF r.next = "again"
            THEN /\ elapsed' = [elapsed EXCEPT ![i] = @ + PollInterval]
                 /\ UNCHANGED <<phase, runErr, regen, nodeErr, regenLog>>
            ELSE /\ elapsed' = [elapsed EXCEPT ![i] = 0]
                 /\ regen' = st
                 /\ nodeErr' = es
                 /\ regenLog' = IF err = nil THEN [regenLog EXCEPT ![i] = @ \cup {regen[i]}]
                                ELSE regenLog
                 /\ NodeTaskReturns(st, es, regenerateControlPlaneManifestsMode)
    /\ UNCHANGED <<ctxVars, kubelet, unschedulable, machines, pvVars>>

\* RegenPoll with the returning condition call kept in tick: the node, the pod
\* polled for, what the Get returned and what the poll returned
RegenPollObserved(i) ==
    /\ phase = "RegeneratingManifests" /\ runErr = nil
    /\ regen[i] \in {"poll_apiserver", "poll_controller_manager"}
    /\ accessorUsed' = (accessorUsed \/ dynamicClient)
    /\ \E pod \in podsSeen :
        LET r == waitForStaticPodReady(dynamicClient, regenPodKey(i, regen[i]), elapsed[i], pod)
            err == IF r.err = nil THEN nil ELSE errorsWrap(r.err, ErrAPIServerRollout)
            st == [regen EXCEPT ![i] = regenNext(regen[i], err)]
            es == [nodeErr EXCEPT ![i] = err]
        IN  IF r.next = "again"
            THEN /\ elapsed' = [elapsed EXCEPT ![i] = @ + PollInterval]
                 /\ UNCHANGED <<phase, runErr, regen, nodeErr, regenLog, tick>>
            ELSE /\ elapsed' = [elapsed EXCEPT ![i] = 0]
                 /\ regen' = st
                 /\ nodeErr' = es
                 /\ regenLog' = IF err = nil THEN [regenLog EXCEPT ![i] = @ \cup {regen[i]}]
                                ELSE regenLog
                 /\ tick' = [made |-> TRUE, node |-> i, step |-> regen[i], pod |-> pod, r |-> r]
                 /\ NodeTaskReturns(st, es, regenerateControlPlaneManifestsMode)
    /\ UNCHANGED <<podKey, cfg, dynamicClient, runs, history, cancelled, extWritten, kubelet,
                   unschedulable, machines, pvVars>>

\* The static pods of the control plane as the API server holds them, by
\* name, all in kube-system: the static pod of component c on node i is in
\* the state own, every other static pod is in the state rest.
StaticPodNames ==
    {apiserverPodName(i) : i \in Nodes} \cup {controllerManagerPodName(i) : i \in Nodes}
HealthyPod ==
    [getErr |-> FALSE, phase |-> "Running", conditions |-> [c \in ConditionTypes |-> "True"]]
AbsentPod == [getErr |-> TRUE, phase |-> "", conditions |-> [c \in {} |-> ""]]
podStore(ownName, own, rest) ==
    [n \in StaticPodNames |-> IF n = ownName THEN own ELSE rest]
\* s.DynamicClient.Get(ctx, key, &pod) against such a store
clientGet(store, key) ==
    IF key.namespace = NamespaceSystem /\ key.name \in DOMAIN store THEN store[key.name]
    ELSE AbsentPod

\* RegenPoll with the Get made by key against the pods of all nodes; tick
\* keeps the returning condition call: the node, the key asked for, what the
\* Get returned, the state of the node's own pod and of the other pods
RegenPollStore(i) ==
    /\ phase = "RegeneratingManifests" /\ runErr = nil
    /\ regen[i] \in {"poll_apiserver", "poll_controller_manager"}
    /\ accessorUsed' = (accessorUsed \/ dynamicClient)
    /\ \E own \in podsSeen, rest \in podsSeen \cap {HealthyPod, AbsentPod} :
        LET ownName == IF regen[i] = "poll_apiserver" THEN "kube-apiserver-" \o hostname(i)
                       ELSE "kube-controller-manager-" \o hostname(i)
            key == regenPodKey(i, regen[i])
            pod == clientGet(podStore(ownName, own, rest), key)
            r == waitForStaticPodReady(dynamicClient, key, elapsed[i], pod)
            err == IF r.err = nil THEN nil ELSE errorsWrap(r.err, ErrAPIServerRollout)
            st == [regen EXCEPT ![i] = regenNext(regen[i], err)]
            es == [nodeErr EXCEPT ![i] = err]
        IN  IF r.next = "again"
            THEN /\ elapsed' = [elapsed EXCEPT ![i] = @ + PollInterval]
                 /\ UNCHANGED <<phase, runErr, regen, nodeErr, regenLog, tick>>
            ELSE /\ elapsed' = [elapsed EXCEPT ![i] = 0]
                 /\ regen' = st
                 /\ nodeErr' = es
                 /\ regenLog' = IF err = nil THEN [regenLog EXCEPT ![i] = @ \cup {regen[i]}]
                                ELSE regenLog
                 /\ tick' = [made |-> TRUE, node |-> i, step |-> regen[i], key |-> key,
                             pod |-> pod, own |-> own, rest |-> rest, r |-> r]
                 /\ NodeTaskReturns(st, es, regenerateControlPlaneManifestsMode)
    /\ UNCHANGED <<podKey, cfg, dynamicClient, runs, history, cancelled, extWritten, kubelet,
                   unschedulable, machines, pvVars>>

\* a step of updateKubeletConfigInternal that returned err: the node's new
\* position, and the task's return when the function returned
KubeletStepDone(i, err) ==
    LET st == [kubelet EXCEPT ![i] = kubeletNext(kubelet[i], err)]
        es == [nodeErr EXCEPT ![i] = err]
    IN  /\ kubelet' = st
        /\ nodeErr' = es
        /\ NodeTaskReturns(st, es, updateKubeletConfigMode)

\* drainer.Cordon(ctx, node.Hostname, true)
KubeletCordon(i) ==
    /\ phase = "ReconfiguringKubelets" /\ runErr = nil
    /\ mayInvoke(kubelet, i, updateKubeletConfigMode)
    /\ \E ok \in ctxCallOk :
        /\ unschedulable' = IF ok THEN [unschedulable EXCEPT ![i] = TRUE] ELSE unschedulable
        /\ KubeletStepDone(i, IF ok THEN nil ELSE errorsWrap(errorsNew("cordon"), ErrCordon))
    /\ UNCHANGED <<ctxVars, regen, elapsed, regenLog, accessorUsed, machines, pvVars>>

\* drainer.Drain(ctx, node.Hostname)
KubeletDrain(i) ==
    /\ phase = "ReconfiguringKubelets" /\ runErr = nil
    /\ kubelet[i] = "drain"
    /\ \E ok \in ctxCallOk :
        KubeletStepDone(i, IF ok THEN nil ELSE errorsWrap(errorsNew("drain"), ErrDrain))
    /\ UNCHANGED <<ctxVars, regen, elapsed, regenLog, unschedulable, accessorUsed,
                   machines, pvVars>>

\* render the script and s.Runner.RunRaw it
KubeletRunCommand(i) ==
    /\ phase = "ReconfiguringKubelets" /\ runErr = nil
    /\ kubelet[i] = "command"
    /\ \E err \in {nil, errorsNew(ErrRender), errorsNew(ErrRunRaw)} : KubeletStepDone(i, err)
    /\ elapsed' = [elapsed EXCEPT ![i] = 0]
    /\ UNCHANGED <<ctxVars, regen, regenLog, unschedulable, accessorUsed,
                   machines, pvVars>>

\* one condition call of the poll for the kubelet service
KubeletPoll(i) ==
    /\ phase = "ReconfiguringKubelets" /\ runErr = nil
    /\ kubelet[i] = "poll_kubelet"
    /\ \E st \in KubeletObservations :
        LET c == kubeletRunning(st)
            r == pollImmediate(elapsed[i], KubeletTimeout, c.done, c.err)
        IN  IF r.next = "again"
            THEN /\ elapsed' = [elapsed EXCEPT ![i] = @ + PollInterval]
                 /\ UNCHANGED <<phase, runErr, kubelet, nodeErr>>
            ELSE /\ elapsed' = [elapsed EXCEPT ![i] = 0]
                 /\ KubeletStepDone(i, r.err)
    /\ UNCHANGED <<ctxVars, regen, regenLog, unschedulable, accessorUsed,
                   machines, pvVars>>

\* KubeletPoll with the returning condition call kept in tick: the node, when
\* the call was made, the status read and what the poll returned
KubeletPollObserved(i) ==
    /\ phase = "ReconfiguringKubelets" /\ runErr = nil
    /\ kubelet[i] = "poll_kubelet"
    /\ \E st \in KubeletObservations :
        LET c == kubeletRunning(st)
            r == pollImmediate(elapsed[i], KubeletTimeout, c.done, c.err)
        IN  IF r.next = "again"
            THEN /\ elapsed' = [elapsed EXCEPT ![i] = @ + PollInterval]
                 /\ UNCHANGED <<phase, runErr, kubelet, nodeErr, tick>>
            ELSE /\ elapsed' = [elapsed EXCEPT ![i] = 0]
                 /\ tick' = [made |-> TRUE, node |-> i, step |-> kubelet[i],
                             el |-> elapsed[i], st |-> st, r |-> r]
                 /\ KubeletStepDone(i, r.err)
    /\ UNCHANGED <<podKey, cfg, dynamicClient, runs, history, cancelled, extWritten, regen, regenLog,
                   unschedulable, accessorUsed, machines, pvVars>>

\* drainer.Cordon(ctx, node.Hostname, false)
KubeletUncordon(i) ==
    /\ phase = "ReconfiguringKubelets" /\ runErr = nil
    /\ kubelet[i] = "uncordon"
    /\ \E ok \in ctxCallOk :
        /\ unschedulable' = IF ok THEN [unschedulable EXCEPT ![i] = FALSE] ELSE unschedulable
        /\ KubeletStepDone(i, IF ok THEN nil ELSE errorsWrap(errorsNew("uncordon"), ErrUncordon))
    /\ UNCHANGED <<ctxVars, regen, elapsed, regenLog, accessorUsed, machines, pvVars>>

\* what s.DynamicClient.List(&machines) can return
MachineListings ==
    {[err |-> TRUE, items |-> <<>>]} \cup {[err |-> FALSE, items |-> ms] : ms \in MachineLists}

ReadyToCompleteMigration ==
    /\ phase = "ValidatingComplete" /\ runErr = nil
    /\ \E listing \in IF dynamicClient /\ ~cancelled THEN MachineListings
                    ELSE {[err |-> TRUE, items |-> <<>>]} :
        /\ machines' = IF dynamicClient
                       THEN [listed |-> ~listing.err, items |-> listing.items]
                       ELSE machines
        /\ runErr' = readyToCompleteMigration(dynamicClient, listing)
        /\ phase' = IF readyToCompleteMigration(dynamicClient, listing) = nil
                    THEN nextTask(phase) ELSE phase
    /\ accessorUsed' = (accessorUsed \/ dynamicClient)
    /\ UNCHANGED <<ctxVars, nodeVars, pvVars>>

\* migrateOpenStackPVs up to the loop: the nil check and the List call
MigrateListPVs ==
    /\ phase = "MigratingVolumes" /\ runErr = nil
    /\ pvIdx = 0
    /\ machines' = NotListed
    /\ IF ~dynamicClient
       THEN /\ runErr' = errorsNew(ErrDynamicClientNotInitialized)
            /\ UNCHANGED <<phase, accessorUsed, pvList, pvIdx>>
       ELSE /\ accessorUsed' = TRUE
            /\ \E ok \in ctxCallOk :
                IF ok
                THEN /\ pvList' = pvs
                     /\ pvIdx' = 1
                     /\ phase' = IF Len(pvs) = 0 THEN nextTask(phase) ELSE phase
                     /\ runErr' = nil
                ELSE /\ runErr' = errorsWrap(errorsNew("list failed"), ErrListPVs)
                     /\ UNCHANGED <<phase, pvList, pvIdx>>
    /\ UNCHANGED <<ctxVars, nodeVars, pvs, pvs0, patchLog>>

\* one iteration of migrateOpenStackPVs' loop over pvList.Items
MigratePVStep ==
    /\ phase = "MigratingVolumes" /\ runErr = nil
    /\ pvIdx \in 1..Len(pvList)
    /\ LET pv == pvList[pvIdx]
           oldPv == pv
           newPv == pvRewritten(pv)
           patch == mergeFrom(oldPv, newPv)
       IN  IF pvNeedsPatch(pv)
           THEN /\ patchLog' = Append(patchLog, [index |-> pvIdx, patch |-> patch])
                /\ pvList' = [pvList EXCEPT ![pvIdx] = newPv]
                /\ \E ok \in ctxCallOk :
                    IF ok
                    THEN /\ pvs' = [pvs EXCEPT ![pvIdx] = applyPatch(@, patch)]
                         /\ pvIdx' = pvIdx + 1
                         /\ phase' = IF pvIdx = Len(pvList) THEN nextTask(phase) ELSE phase
                         /\ runErr' = nil
                    ELSE /\ runErr' = errorsWrap(errorsNew("patch failed"), errPatchPV(pvName(pvIdx)))
                         /\ UNCHANGED <<phase, pvs, pvIdx>>
           ELSE /\ pvIdx' = pvIdx + 1
                /\ phase' = IF pvIdx = Len(pvList) THEN nextTask(phase) ELSE phase
                /\ UNCHANGED <<runErr, pvs, pvList, patchLog>>
    /\ UNCHANGED <<ctxVars, nodeVars, accessorUsed, machines, pvs0>>

\* another client of the API server rewrites a volume the annotator has listed
\* and not yet reached
ExternalWrite ==
    /\ phase = "MigratingVolumes" /\ runErr = nil
    /\ pvIdx >= 1
    /\ Cardinality(extWritten) < MaxExternalWrites
    /\ \E j \in pvIdx..Len(pvs) :
        /\ \A w \in extWritten : w.index # j
        /\ \E pv \in PVShapes \ {pvs[j]} :
            /\ pvs' = [pvs EXCEPT ![j] = pv]
            /\ extWritten' = extWritten \cup {[index |-> j, pv |-> pv]}
    /\ UNCHANGED <<podKey, cfg, dynamicClient, runs, history, cancelled, tick, phase, runErr,
                   nodeVars, accessorUsed, machines, pvs0, pvList, pvIdx, patchLog>>

\* s.Context is cancelled while a run, or a called waitForStaticPodReady, is under way
Cancel ==
    /\ ~cancelled
    /\ runErr = nil
    /\ phase \in {"Validating", "RegeneratingManifests", "ReconfiguringKubelets",
                  "ValidatingComplete", "MigratingVolumes", "CallWaitForStaticPod"}
    /\ cancelled' = TRUE
    /\ UNCHANGED <<podKey, cfg, dynamicClient, runs, history, extWritten, tick, phase, runErr,
                   nodeVars, accessorUsed, machines, pvVars>>

\* the operator invokes the start phase again after the run returned: a new
\* process with a new state.State, on the cluster as the last run left it
RerunStart ==
    /\ runs < MaxRuns
    /\ phase \in {"Validating", "RegeneratingManifests", "ReconfiguringKubelets", "Done"}
    /\ ~cfg.CCMMigrationComplete
    /\ runErr # nil \/ phase = "Done"
    /\ runs' = runs + 1
    /\ history' = Append(history,
                         [err |-> runErr,
                          halted |-> phase,
                          patched |-> {},
                          migrated |-> {i \in Nodes : regen[i] = "ok" /\ kubelet[i] = "ok"}])
    /\ dynamicClient' \in BOOLEAN
    /\ phase' = "Validating"
    /\ runErr' = nil
    /\ regen' = [i \in Nodes |-> "idle"]
    /\ kubelet' = [i \in Nodes |-> "idle"]
    /\ elapsed' = [i \in Nodes |-> 0]
    /\ nodeErr' = [i \in Nodes |-> nil]
    /\ accessorUsed' = FALSE
    /\ UNCHANGED <<cfg, regenLog, unschedulable, machines, pvVars, cancelled, extWritten, tick,
                   podKey>>

\* migrateOpenStackPVs invoked again on the same state.State after it returned
MigrateAgain ==
    /\ runs < MaxAnnotatorCalls
    /\ cfg.CCMMigrationComplete
    /\ phase = "Done" \/ (phase = "MigratingVolumes" /\ runErr # nil)
    /\ runs' = runs + 1
    /\ history' = Append(history,
                         [err |-> runErr,
                          halted |-> phase,
                          patched |-> {patchLog[k].index : k \in 1..Len(patchLog)}
                                      \cap 1..(pvIdx - 1),
                          migrated |-> {}])
    /\ phase' = "MigratingVolumes"
    /\ runErr' = nil
    /\ pvs0' = pvs
    /\ pvList' = <<>>
    /\ pvIdx' = 0
    /\ patchLog' = <<>>
    /\ extWritten' = {}
    /\ UNCHANGED <<podKey, cfg, dynamicClient, nodeVars, accessorUsed, machines, pvs, cancelled, tick>>

Next ==
    \/ CallValidateStart
    \/ CallWaitTick
    \/ ValidateStart
    \/ \E i \in Nodes : RegenRunCommand(i)
    \/ \E i \in Nodes : RegenSettle(i)
    \/ \E i \in Nodes : RegenPoll(i)
    \/ \E i \in Nodes : KubeletCordon(i)
    \/ \E i \in Nodes : KubeletDrain(i)
    \/ \E i \in Nodes : KubeletRunCommand(i)
    \/ \E i \in Nodes : KubeletPoll(i)
    \/ \E i \in Nodes : KubeletUncordon(i)
    \/ ReadyToCompleteMigration
    \/ MigrateListPVs
    \/ MigratePVStep

Spec == Init /\ [][Next]_vars

\* a run whose context may be cancelled
SpecCancel == Init /\ [][Next \/ Cancel]_vars

\* the start phase re-invoked by the operator
SpecRerun == Init /\ [][Next \/ RerunStart]_vars

\* the volume annotator running while another client writes volumes
SpecExternalWriter == Init /\ [][Next \/ ExternalWrite]_vars

\* the volume annotator invoked repeatedly
SpecMigrateAgain == Init /\ [][Next \/ MigrateAgain]_vars

\* a run whose static pod polls keep the condition call they returned on
NextObserved ==
    \/ CallValidateStart
    \/ CallWaitTick
    \/ ValidateStart
    \/ \E i \in Nodes : RegenRunCommand(i)
    \/ \E i \in Nodes : RegenSettle(i)
    \/ \E i \in Nodes : RegenPollObserved(i)
    \/ \E i \in Nodes : KubeletCordon(i)
    \/ \E i \in Nodes : KubeletDrain(i)
    \/ \E i \in Nodes : KubeletRunCommand(i)
    \/ \E i \in Nodes : KubeletPollObserved(i)
    \/ \E i \in Nodes : KubeletUncordon(i)
    \/ ReadyToCompleteMigration
    \/ MigrateListPVs
    \/ MigratePVStep
SpecObserved == Init /\ [][NextObserved]_vars

\* a start run whose static pod polls read the pods of all nodes by name
PodStoreInit ==
    /\ cfg \in {c \in RunConfigs : ~c.CCMMigrationComplete}
    /\ dynamicClient \in BOOLEAN
    /\ pvs = <<>>
    /\ pvs0 = <<>>
    /\ phase = "Validating"
    /\ podKey = NoPodKey
    /\ IdleInit
NextPodStore ==
    \/ ValidateStart
    \/ \E i \in Nodes : RegenRunCommand(i)
    \/ \E i \in Nodes : RegenSettle(i)
    \/ \E i \in Nodes : RegenPollStore(i)
    \/ \E i \in Nodes : KubeletCordon(i)
    \/ \E i \in Nodes : KubeletDrain(i)
    \/ \E i \in Nodes : KubeletRunCommand(i)
    \/ \E i \in Nodes : KubeletPoll(i)
    \/ \E i \in Nodes : KubeletUncordon(i)
SpecPodStore == PodStoreInit /\ [][NextPodStore]_vars

\* migrateOpenStackPVs called on a state.State, of which it reads
\* s.DynamicClient only, against any list of stored volumes
AnnotatorInit ==
    /\ cfg = CHOOSE c \in RunConfigs : c.CCMMigrationComplete
    /\ dynamicClient \in BOOLEAN
    /\ pvs \in PVListsUpTo(MaxPVs)
    /\ pvs0 = pvs
    /\ phase = "MigratingVolumes"
    /\ podKey = NoPodKey
    /\ IdleInit
NextAnnotator ==
    \/ MigrateListPVs
    \/ MigratePVStep
SpecAnnotator == AnnotatorInit /\ [][NextAnnotator]_vars

\* ================================================================ claims
Started(status, i) == status[i] # "idle"
InProgress(i) ==
    \/ regen[i] \notin {"idle", "ok", "failed"}
    \/ kubelet[i] \notin {"idle", "ok", "failed"}
Regenerated(i) ==
    /\ regen[i] = "ok"
    /\ regenLog[i] = {"command", "poll_apiserver", "poll_controller_manager"}
Reconfigured(i) == kubelet[i] = "ok" /\ ~unschedulable[i]

C2_FailFast ==
    \A k \in Nodes :
        /\ regen[k] = "failed" =>
            /\ \A j \in (k + 1)..NumNodes : ~Started(regen, j)
            /\ \A j \in Nodes : ~Started(kubelet, j) /\ ~unschedulable[j]
            /\ phase = "RegeneratingManifests"
            /\ runErr # nil /\ runErr = nodeErr[k]
            /\ \A j \in 1..(k - 1) : Regenerated(j)
        /\ kubelet[k] = "failed" =>
            /\ \A j \in (k + 1)..NumNodes : ~Started(kubelet, j) /\ ~unschedulable[j]
            /\ phase = "ReconfiguringKubelets"
            /\ runErr # nil /\ runErr = nodeErr[k]
            /\ \A j \in 1..(k - 1) : Reconfigured(j)
            /\ \A j \in Nodes : Regenerated(j)

C2_Witness ==
    /\ NumNodes >= 3
    /\ kubelet[2] = "failed" /\ unschedulable[2]
    /\ runErr = errorsWrap(errorsNew("drain"), ErrDrain)

\* C3: a node whose kubelet reconfiguration has begun (cordon issued) had its
\* manifest regeneration return success: the command ran and both static
\* pods were polled healthy. A node whose regeneration failed is never cordoned.
C3_RegenBeforeKubelet ==
    \A n \in Nodes :
        /\ Started(kubelet, n) => Regenerated(n)
        /\ regen[n] = "failed" => (~Started(kubelet, n) /\ ~unschedulable[n])

C3_Witness == \E n \in Nodes : kubelet[n] = "drain" /\ unschedulable[n] /\ Regenerated(n)

\* C4: at most one control-plane node is inside its task function at a time.
C4_Serialized == Cardinality({i \in Nodes : InProgress(i)}) <= 1

C4_Witness ==
    /\ regen[1] = "ok" /\ regen[2] = "poll_controller_manager"
    /\ InProgress(2)

\* validateExternalCloudProviderConfig has returned on cfg: called directly, or
\* as the first task of a start run
ValidateStartReturned ==
    \/ phase = "ValidateStartReturned"
    \/ phase = "Validating" /\ runErr # nil
    \/ ~cfg.CCMMigrationComplete /\ phase \in {"RegeneratingManifests", "ReconfiguringKubelets", "Done"}
ValidateStartResult ==
    IF phase \in {"ValidateStartReturned", "Validating"} THEN runErr ELSE nil
NoNodeOperation ==
    \A i \in Nodes : ~Started(regen, i) /\ ~Started(kubelet, i) /\ ~unschedulable[i]

\* the six checks of the specification, in its order, and the error of each
StartChecks(s) ==
    <<s.External,
      s.CSIMigrationSupported,
      s.InTreeCloudProviderEnabled,
      ~(s.ExternalCCMDeployed /\ ~s.CCMMigrationComplete),
      s.Vsphere => s.CSIConfig # "",
      s.StaticWorkersHosts = 0>>
StartCheckErrors ==
    <<ErrExternalRequired, ErrUnsupportedProvider, ErrAlreadyExternal, ErrInProgress,
      ErrCSIConfigRequired, ErrStaticWorkers>>
FirstFailingCheck(s) ==
    IF \A k \in 1..6 : StartChecks(s)[k] THEN nil
    ELSE errorsNew(StartCheckErrors[
            CHOOSE k \in 1..6 : ~StartChecks(s)[k] /\ \A j \in 1..(k - 1) : StartChecks(s)[j]])
ConfigurationErrors ==
    {errorsNew(ErrExternalRequired), errorsNew(ErrUnsupportedProvider),
     errorsNew(ErrCSIConfigRequired), errorsNew(ErrStaticWorkers)}
StateErrors == {errorsNew(ErrAlreadyExternal), errorsNew(ErrInProgress)}

\* C5: whatever the eight inputs, validateExternalCloudProviderConfig returns
\* the error of the first failing check in the order 1..6, and nil iff all
\* six checks pass.
C5_FirstFailingCheck ==
    ValidateStartReturned => ValidateStartResult = FirstFailingCheck(cfg)

C5_Witness ==
    /\ phase = "ValidateStartReturned"
    /\ cfg.External /\ cfg.CSIMigrationSupported
    /\ ~cfg.InTreeCloudProviderEnabled /\ cfg.ExternalCCMDeployed /\ ~cfg.CCMMigrationComplete
    /\ runErr = errorsNew(ErrAlreadyExternal)

\* C6: with the external cloud provider disabled the validation returns the
\* "external must be enabled" configuration error whatever the other fields
\* are, and the cluster accessor has issued no Get, List or Patch.
C6_ExternalDisabled ==
    (ValidateStartReturned /\ ~cfg.External) =>
        /\ ValidateStartResult = errorsNew(ErrExternalRequired)
        /\ ValidateStartResult \in ConfigurationErrors
        /\ ~accessorUsed

C6_Witness ==
    /\ phase = "ValidateStartReturned"
    /\ ~cfg.External /\ ~cfg.InTreeCloudProviderEnabled /\ cfg.ExternalCCMDeployed
    /\ cfg.StaticWorkersHosts > 0
    /\ runErr = errorsNew(ErrExternalRequired)

\* C7: with a non-empty static-worker host list the validation returns an
\* error whatever the other fields are, and no operation is ever started on a
\* node of such a cluster.
C7_StaticWorkers ==
    cfg.StaticWorkersHosts > 0 =>
        /\ NoNodeOperation
        /\ ValidateStartReturned => ValidateStartResult # nil

C7_Witness ==
    /\ phase = "Validating"
    /\ cfg.StaticWorkersHosts > 0
    /\ runErr = errorsNew(ErrStaticWorkers)

\* C8 as stated: with the external CCM deployed and the run not marked
\* complete, the validation fails with a StateError whatever the other
\* inputs are.
C8_AlwaysStateError ==
    (ValidateStartReturned /\ cfg.ExternalCCMDeployed /\ ~cfg.CCMMigrationComplete) =>
        ValidateStartResult \in StateErrors

\* C8 amended: with the external CCM deployed and the run not marked complete
\* the validation fails whatever the other inputs are: with a StateError when
\* checks 1 and 2 pass, with the ConfigurationError of check 1 or 2 otherwise;
\* a start run on such a cluster never reaches manifest regeneration.
C8_ReentrancyGuard ==
    (cfg.ExternalCCMDeployed /\ ~cfg.CCMMigrationComplete) =>
        /\ NoNodeOperation
        /\ phase \in {"CallValidateStart", "ValidateStartReturned", "Validating"}
        /\ ValidateStartReturned =>
            /\ ValidateStartResult # nil
            /\ (cfg.External /\ cfg.CSIMigrationSupported) => ValidateStartResult \in StateErrors
            /\ ~cfg.External => ValidateStartResult = errorsNew(ErrExternalRequired)
            /\ (cfg.External /\ ~cfg.CSIMigrationSupported) =>
                    ValidateStartResult = errorsNew(ErrUnsupportedProvider)

C8_Witness ==
    /\ phase = "Validating"
    /\ cfg.ExternalCCMDeployed /\ ~cfg.CCMMigrationComplete
    /\ runErr = errorsNew(ErrInProgress)

\* C9: when the machine list was read, readyToCompleteMigration succeeds iff
\* every listed machine carries the external-cloud-provider kubelet flag with
\* a value that parses as boolean true; otherwise it returns the "not all
\* machines are rolled-out" error. An empty list succeeds.
TrueStrings == {"1", "t", "T", "TRUE", "true", "True"}
MachineRolledOut(m) ==
    /\ ExternalCloudProviderKubeletFlag \in DOMAIN m.kubeletFlags
    /\ m.kubeletFlags[ExternalCloudProviderKubeletFlag] \in TrueStrings
C9_ReadyIffAllTrue ==
    machines.listed =>
        IF \A k \in 1..Len(machines.items) : MachineRolledOut(machines.items[k])
        THEN runErr = nil /\ phase = "MigratingVolumes"
        ELSE runErr = errorsNew(ErrNotAllMachines) /\ phase = "ValidatingComplete"

C9_Witness ==
    /\ machines.listed
    /\ Len(machines.items) = 2
    /\ MachineRolledOut(machines.items[1])
    /\ mapLookup(machines.items[2].kubeletFlags, ExternalCloudProviderKubeletFlag) = "false"
    /\ runErr = errorsNew(ErrNotAllMachines)

\* C10: a complete run whose List and Patch calls all succeeded issued exactly
\* one patch for each listed volume whose provisioner annotation was
\* kubernetes.io/cinder and none for any other volume; each patch carries
\* only that annotation, set to cinder.csi.openstack.org; afterwards no volume
\* carries the in-tree identifier, the patched volumes differ from before in
\* that annotation only and the other volumes are unchanged.
InTreeVolumes(list) ==
    {i \in 1..Len(list) :
        /\ provisionedByAnnotation \in DOMAIN list[i].annotations
        /\ list[i].annotations[provisionedByAnnotation] = provisionedByOpenStackInTreeCinder}
C10_PatchesExactlyInTree ==
    (phase = "Done" /\ cfg.CCMMigrationComplete) =>
        /\ runErr = nil
        /\ Len(pvs) = Len(pvs0)
        /\ Len(patchLog) = Cardinality(InTreeVolumes(pvs0))
        /\ {patchLog[k].index : k \in 1..Len(patchLog)} = InTreeVolumes(pvs0)
        /\ \A k \in 1..Len(patchLog) :
            /\ DOMAIN patchLog[k].patch = {provisionedByAnnotation}
            /\ patchLog[k].patch[provisionedByAnnotation] = provisionedByOpenStackCSICinder
        /\ InTreeVolumes(pvs) = {}
        /\ \A i \in 1..Len(pvs0) :
            IF i \in InTreeVolumes(pvs0)
            THEN /\ DOMAIN pvs[i].annotations = DOMAIN pvs0[i].annotations
                 /\ \A a \in DOMAIN pvs[i].annotations :
                        pvs[i].annotations[a] =
                            IF a = provisionedByAnnotation THEN provisionedByOpenStackCSICinder
                            ELSE pvs0[i].annotations[a]
            ELSE pvs[i] = pvs0[i]

C10_Witness ==
    /\ phase = "Done" /\ cfg.CCMMigrationComplete
    /\ Len(pvs0) = 3
    /\ Cardinality(InTreeVolumes(pvs0)) = 2
    /\ \E i \in 1..3 :
        mapLookup(pvs0[i].annotations, provisionedByAnnotation) = provisionedByOpenStackCSICinder
    /\ Len(patchLog) = 2

\* C11: the volume annotator is idempotent. Invoked again after an invocation
\* that returned nil, it issues no Patch call and leaves every volume as that
\* invocation left it. Invoked again after an invocation that a Patch error
\* aborted, it patches only volumes that still carry kubernetes.io/cinder,
\* none of those the aborted invocation patched, and when it returns nil it
\* has patched all of them and no volume carries the in-tree identifier.
PatchedVolumes == {patchLog[k].index : k \in 1..Len(patchLog)}
PatchErrors ==
    {errorsWrap(errorsNew("patch failed"), errPatchPV(pvName(i))) : i \in 1..MaxPVs}
C11_Idempotent ==
    (history # <<>> /\ cfg.CCMMigrationComplete) =>
        LET last == history[Len(history)]
        IN  /\ last.err = nil => (patchLog = <<>> /\ pvs = pvs0)
            /\ last.err \in PatchErrors =>
                /\ PatchedVolumes \subseteq InTreeVolumes(pvs0)
                /\ PatchedVolumes \cap last.patched = {}
                /\ (phase = "Done" /\ runErr = nil) =>
                    /\ PatchedVolumes = InTreeVolumes(pvs0)
                    /\ InTreeVolumes(pvs) = {}

\* a first invocation aborted after patching a volume, a second one that
\* patched the rest, and a third that returned nil without a Patch call
C11_Witness ==
    /\ Len(history) = 2
    /\ history[1].err \in PatchErrors /\ history[1].patched # {}
    /\ history[2].err = nil /\ history[2].patched # {}
    /\ phase = "Done" /\ runErr = nil
    /\ patchLog = <<>>

\* C12: the first Patch that returns an error aborts migrateOpenStackPVs. The
\* error returned wraps the Patch error in a message with the name of that
\* volume; that volume was sent one Patch and no later volume any; the
\* volumes patched before it carry cinder.csi.openstack.org, the failed
\* volume and the later ones are as they were; the run stays halted there.
PatchFailed == phase = "MigratingVolumes" /\ runErr # nil /\ pvIdx >= 1
C12_FirstPatchErrorAborts ==
    PatchFailed =>
        /\ runErr = <<ErrPatchPV \o " " \o pvName(pvIdx), "patch failed">>
        /\ patchLog # <<>> /\ patchLog[Len(patchLog)].index = pvIdx
        /\ \A k \in 1..(Len(patchLog) - 1) :
            /\ patchLog[k].index < pvIdx
            /\ mapLookup(pvs[patchLog[k].index].annotations, provisionedByAnnotation)
                   = provisionedByOpenStackCSICinder
        /\ \A i \in pvIdx..Len(pvs) : pvs[i] = pvs0[i]
        /\ pvNeedsPatch(pvs[pvIdx])

\* volume 1 patched, the Patch of volume 2 failed, volume 3 still in-tree
C12_Witness ==
    /\ PatchFailed
    /\ pvIdx = 2 /\ Len(pvs) = 3
    /\ Len(patchLog) = 2
    /\ pvNeedsPatch(pvs[3])

\* C13 as stated: the Patch of a volume that an external writer changed
\* between the List snapshot and the Patch fails; the annotator returns that
\* error, sends no other Patch to it, and the stored volume is as the
\* external writer left it.
C13_ConflictOnExternalWrite ==
    \A w \in extWritten :
        w.index \in PatchedVolumes =>
            /\ PatchFailed /\ pvIdx = w.index
            /\ pvs[w.index] = w.pv

\* the annotator sent its Patch to a volume an external writer had changed
C13_Witness ==
    \E w \in extWritten :
        /\ w.index \in PatchedVolumes
        /\ mapLookup(w.pv.annotations, provisionedByAnnotation) = "ebs.csi.aws.com"

\* C14: waitForStaticPodReady called with an initialized client, a pod name
\* and a namespace (its preconditions) terminates,
\* and in one of two ways. Its condition runs at 0 s and then every 5 s, never
\* later than the timeout; while it polls no call has seen the pod healthy
\* and a further call is due. It returns nil at the call that sees the pod
\* healthy, or the timeout error after a call that did not, made no earlier
\* than the timeout and no later than one poll interval after it.
WaitPolling == phase = "CallWaitForStaticPod"
WaitReturned == phase = "WaitForStaticPodReturned"
WaitPreconditionsHold == waitPreconditionError(dynamicClient, podKey) = nil
C14_SuccessOrTimeout ==
    /\ (WaitPolling /\ WaitPreconditionsHold) =>
        /\ runErr = nil
        /\ elapsed[1] % PollInterval = 0 /\ elapsed[1] <= StaticPodTimeout
        /\ IF tick.made
           THEN tick.el = elapsed[1] - PollInterval /\ ~staticPodReady(tick.pod)
           ELSE elapsed[1] = 0
        /\ ENABLED CallWaitTick
    /\ (WaitReturned /\ WaitPreconditionsHold) =>
        /\ tick.made /\ tick.el = elapsed[1]
        /\ \/ /\ runErr = nil
              /\ staticPodReady(tick.pod)
              /\ tick.el <= StaticPodTimeout
           \/ /\ runErr = errorsNew(ErrWaitTimeout)
              /\ ~staticPodReady(tick.pod)
              /\ tick.el >= StaticPodTimeout
              /\ tick.el <= StaticPodTimeout + PollInterval

\* the pod was absent, then not healthy, and is seen Running and Ready at the
\* call made 10 s into the poll, which returns nil
C14_Witness ==
    /\ WaitReturned /\ runErr = nil
    /\ tick.made /\ tick.el = 2 * PollInterval /\ tick.failed = 1
    /\ tick.pod.phase = "Running"
    /\ DOMAIN tick.pod.conditions = ConditionTypes
    /\ \A c \in ConditionTypes : tick.pod.conditions[c] = "True"

\* C15: a Get that fails neither ends the poll nor is returned. The call that
\* made it goes on polling unless it was the call made at the timeout, which
\* returns the timeout error; a poll whose every Get failed made its last
\* call at the timeout; and a poll (one that started: the preconditions
\* held) returns no error other than the timeout error.
C15_FetchErrorsSwallowed ==
    /\ (tick.made /\ tick.pod.getErr) =>
        IF tick.el < StaticPodTimeout
        THEN WaitPolling /\ runErr = nil /\ tick.r.next = "again"
        ELSE WaitReturned /\ runErr = errorsNew(ErrWaitTimeout)
    /\ (WaitReturned /\ tick.made /\ tick.failed * PollInterval = tick.el + PollInterval) =>
        /\ tick.el = StaticPodTimeout
        /\ runErr = errorsNew(ErrWaitTimeout)
    /\ (WaitReturned /\ WaitPreconditionsHold /\ runErr # nil) =>
        runErr = errorsNew(ErrWaitTimeout)

\* every Get failed, from the first call to the one made at the timeout
C15_Witness ==
    /\ WaitReturned /\ runErr = errorsNew(ErrWaitTimeout)
    /\ tick.made /\ tick.el = StaticPodTimeout
    /\ tick.failed = (StaticPodTimeout \div PollInterval) + 1

\* C16: each condition call's verdict is the reference predicate of what its
\* Get returned: done iff the Get succeeded, the phase is Running and no
\* Ready or ContainersReady entry that is present has a status other than
\* True. The poll returns nil at the first call whose verdict is done: a
\* call that is done ends the poll, and while it polls no call was done.
ReferenceReady(pod) ==
    /\ ~pod.getErr
    /\ pod.phase = "Running"
    /\ \A c \in {"Ready", "ContainersReady"} :
        c \in DOMAIN pod.conditions => pod.conditions[c] = "True"
C16_VerdictIsReference ==
    tick.made =>
        /\ (tick.r.next = "return" /\ tick.r.err = nil) <=> ReferenceReady(tick.pod)
        /\ ReferenceReady(tick.pod) => (WaitReturned /\ runErr = nil)
        /\ WaitPolling => ~ReferenceReady(tick.pod)
        /\ (WaitReturned /\ runErr = nil) => ReferenceReady(tick.pod)

\* a Running pod with a Ready entry that is True and no ContainersReady
\* entry is seen at the third call, after two calls that were not done
C16_Witness ==
    /\ WaitReturned /\ runErr = nil
    /\ tick.made /\ tick.el = 2 * PollInterval
    /\ tick.pod.phase = "Running"
    /\ DOMAIN tick.pod.conditions = {"Ready"}
    /\ tick.pod.conditions["Ready"] = "True"

\* C17: a node whose cordon succeeded and whose drain, kubelet-config command
\* or kubelet poll then fails: updateKubeletConfigInternal returns that error
\* at that step and issues no uncordon (the node is unschedulable before and
\* after the step), and a node left failed and unschedulable stays
\* unschedulable in every later step of the run.
C17_FailureLeavesCordoned ==
    [][\A i \in Nodes :
        /\ (kubelet[i] \in {"drain", "command", "poll_kubelet"} /\ nodeErr'[i] # nil) =>
            /\ kubelet'[i] = "failed"
            /\ unschedulable[i] /\ unschedulable'[i]
        /\ (kubelet[i] = "failed" /\ unschedulable[i]) =>
            (kubelet'[i] = "failed" /\ unschedulable'[i])]_vars

\* node 1 reconfigured and uncordoned; node 2 cordoned and drained, its
\* kubelet poll timed out: the run has returned and node 2 is unschedulable
C17_Witness ==
    /\ Reconfigured(1)
    /\ kubelet[2] = "failed" /\ unschedulable[2]
    /\ nodeErr[2] = errorsNew(ErrWaitTimeout)
    /\ runErr = errorsNew(ErrWaitTimeout)

\* C18 as stated: after a start run that halted at a node's failure, the
\* start phase invoked again passes validation, starts no operation on a node
\* the halted run had completed and leaves that node schedulable, and a run
\* that returns nil leaves every node regenerated and schedulable.
HaltedAtNode(run) == run.err # nil /\ run.halted \in {"RegeneratingManifests", "ReconfiguringKubelets"}
C18_Resumable ==
    (history # <<>> /\ ~cfg.CCMMigrationComplete /\ HaltedAtNode(history[Len(history)])) =>
        /\ ~(phase = "Validating" /\ runErr # nil)
        /\ \A i \in history[Len(history)].migrated :
            /\ ~Started(regen, i) /\ ~Started(kubelet, i)
            /\ ~unschedulable[i]
        /\ (phase = "Done" /\ runErr = nil) =>
            \A i \in Nodes :
                /\ regenLog[i] = {"command", "poll_apiserver", "poll_controller_manager"}
                /\ ~unschedulable[i]

\* node 1 was migrated and uncordoned by the run that halted at node 2; the
\* run invoked after it cordoned node 1 again and failed to drain it
C18_Witness ==
    /\ Len(history) = 1 /\ HaltedAtNode(history[1])
    /\ history[1].migrated = {1}
    /\ kubelet[1] = "failed" /\ unschedulable[1]
    /\ runErr = errorsWrap(errorsNew("drain"), ErrDrain)

\* C19 as stated: once s.Context is cancelled, the settle sleep does not run
\* its 30 s out and no poll (static pod, kubelet status) waits for a further
\* tick: the operation in progress returns instead.
Waits(i) ==
    \/ regen[i] = "sleep" /\ regen'[i] = "poll_apiserver"
    \/ elapsed'[i] = elapsed[i] + PollInterval
C19_CancelReturnsPromptly ==
    [][cancelled => \A i \in Nodes : ~Waits(i)]_vars

\* C20 as stated: when the run has halted at an error on node k, every node
\* before k is regenerated, reconfigured and uncordoned, no node other than k
\* is unschedulable, and no operation of either task has begun on a node
\* after k.
HaltedAt(k) == runErr # nil /\ (regen[k] = "failed" \/ kubelet[k] = "failed")
StartRun ==
    \/ phase \in {"Validating", "RegeneratingManifests", "ReconfiguringKubelets"}
    \/ phase = "Done" /\ ~cfg.CCMMigrationComplete
phaseRank(p) ==
    IF p = "Validating" THEN 0
    ELSE IF p = "RegeneratingManifests" THEN 1
    ELSE IF p = "ReconfiguringKubelets" THEN 2
    ELSE 3
regenRank(st) ==
    IF st = "idle" THEN 0
    ELSE IF st = "sleep" THEN 1
    ELSE IF st = "poll_apiserver" THEN 2
    ELSE IF st = "poll_controller_manager" THEN 3
    ELSE 4
kubeletRank(st) ==
    IF st = "idle" THEN 0
    ELSE IF st = "drain" THEN 1
    ELSE IF st = "command" THEN 2
    ELSE IF st = "poll_kubelet" THEN 3
    ELSE IF st = "uncordon" THEN 4
    ELSE 5
StartPathState ==
    StartRun =>
        /\ \A i \in Nodes :
            /\ Started(regen, i) => phaseRank(phase) >= 1
            /\ Started(kubelet, i) => phaseRank(phase) >= 2
            /\ phaseRank(phase) >= 2 => regen[i] = "ok"
        /\ \A i \in 1..(NumNodes - 1) :
            /\ Started(regen, i + 1) => regen[i] = "ok"
            /\ Started(kubelet, i + 1) => kubelet[i] = "ok"
        /\ phase = "Done" =>
            /\ runErr = nil
            /\ \A i \in Nodes : regen[i] = "ok" /\ kubelet[i] = "ok"
        /\ runErr # nil =>
            \/ phase = "Validating"
            \/ phase = "RegeneratingManifests"
               /\ \E k \in Nodes : regen[k] = "failed" /\ runErr = nodeErr[k]
            \/ phase = "ReconfiguringKubelets"
               /\ \E k \in Nodes : kubelet[k] = "failed" /\ runErr = nodeErr[k]
        /\ (phase # "Done" /\ runErr = nil) => ENABLED Next
        /\ \A i \in Nodes : elapsed[i] <= StaticPodTimeout /\ elapsed[i] <= KubeletTimeout
StartPathStep ==
    StartRun =>
        /\ phaseRank(phase') >= phaseRank(phase)
        /\ \A i \in Nodes :
            /\ regenRank(regen'[i]) >= regenRank(regen[i])
            /\ kubeletRank(kubelet'[i]) >= kubeletRank(kubelet[i])
            /\ regen[i] \in {"ok", "failed"} => regen'[i] = regen[i]
            /\ kubelet[i] \in {"ok", "failed"} => kubelet'[i] = kubelet[i]
        /\ \/ phaseRank(phase') > phaseRank(phase)
           \/ runErr = nil /\ runErr' # nil
           \/ \E i \in Nodes :
                \/ regenRank(regen'[i]) > regenRank(regen[i])
                \/ kubeletRank(kubelet'[i]) > kubeletRank(kubelet[i])
                \/ elapsed'[i] > elapsed[i]
C21_StartPath ==
    /\ []StartPathState
    /\ [][StartPathStep]_vars

\* a start run at Done on three nodes
C21_Witness ==
    /\ StartRun /\ phase = "Done" /\ runErr = nil
    /\ \A i \in Nodes : Regenerated(i) /\ Reconfigured(i)

\* C22: PersistentVolumes are patched only by a run flagged complete and only
\* after readyToCompleteMigration returned nil. A Patch was issued, or a stored
\* volume differs from the start, only in a complete run that is past
\* ValidatingComplete; a run still in (or halted in) ValidatingComplete, with
\* the List failed or a listed machine not rolled over, has issued no List or
\* Patch of volumes; and a complete run performs no operation on any node.
CompleteRun == cfg.CCMMigrationComplete /\ phase \in {"ValidatingComplete", "MigratingVolumes", "Done"}
VolumesUntouched == patchLog = <<>> /\ pvs = pvs0 /\ pvIdx = 0 /\ pvList = <<>>
C22_PatchOnlyAfterValidateComplete ==
    /\ ~VolumesUntouched => (CompleteRun /\ phase # "ValidatingComplete")
    /\ (machines.listed
         /\ \E k \in 1..Len(machines.items) : ~MachineRolledOut(machines.items[k])) =>
            /\ phase = "ValidatingComplete" /\ runErr = errorsNew(ErrNotAllMachines)
            /\ VolumesUntouched
    /\ (CompleteRun /\ runErr # nil /\ phase = "ValidatingComplete") => VolumesUntouched
    /\ CompleteRun => NoNodeOperation

\* a complete run halted in ValidatingComplete because the List of machines
\* failed, on a cluster that has an in-tree volume
C22_Witness ==
    /\ CompleteRun /\ phase = "ValidatingComplete"
    /\ runErr = errorsWrap(errorsNew("list failed"), ErrListMachines)
    /\ InTreeVolumes(pvs) # {}
    /\ VolumesUntouched

\* C23: regenerateControlPlaneManifestsInternal runs the re-render command,
\* then the 30 s settle sleep, then the API server poll, then the
\* controller-manager poll. A node is at a step only with every step before
\* it done; a step that returns an error ends the function there, with no
\* later step begun; the function returns nil only with all steps done.
regenDone(st) ==
    IF st \in {"idle", "sleep"} THEN {}
    ELSE IF st = "poll_apiserver" THEN {"command"}
    ELSE IF st = "poll_controller_manager" THEN {"command", "poll_apiserver"}
    ELSE {"command", "poll_apiserver", "poll_controller_manager"}
regenSucc(st) ==
    IF st = "idle" THEN "sleep"
    ELSE IF st = "sleep" THEN "poll_apiserver"
    ELSE IF st = "poll_apiserver" THEN "poll_controller_manager"
    ELSE "ok"
RegenOrderState ==
    \A i \in Nodes :
        /\ regen[i] = "sleep" => regenLog[i] = {"command"}
        /\ regen[i] \in {"poll_apiserver", "poll_controller_manager", "ok"} =>
            regenLog[i] = regenDone(regen[i])
        /\ regen[i] = "failed" =>
            /\ nodeErr[i] # nil
            /\ regenLog[i] \in {{}, {"command"}, {"command", "poll_apiserver"}}
            /\ nodeErr[i] \in {errorsNew(ErrRender), errorsNew(ErrRunRaw)} <=> regenLog[i] = {}
        /\ (regen[i] = "ok" /\ phase = "RegeneratingManifests") => nodeErr[i] = nil
RegenOrderStep ==
    \A i \in Nodes :
        regen'[i] # regen[i] =>
            /\ regen[i] \notin {"ok", "failed"}
            /\ IF nodeErr'[i] # nil
               THEN regen'[i] = "failed" /\ regenLog'[i] = regenLog[i]
               ELSE regen'[i] = regenSucc(regen[i])
C23_RegenStepOrder ==
    /\ []RegenOrderState
    /\ [][RegenOrderStep]_vars

\* the API server poll of node 2 timed out: the controller-manager poll was
\* not begun, the function returned the error
C23_Witness ==
    /\ regen[2] = "failed"
    /\ regenLog[2] = {"command"}
    /\ nodeErr[2] = errorsWrap(errorsNew(ErrWaitTimeout), ErrAPIServerRollout)
    /\ Regenerated(1)

\* C24: regenerateControlPlaneManifestsInternal returns nil only if each of
\* the node's two polls returned on a pod in phase Running whose Ready entry
\* and ContainersReady entry are both present and True: a poll that returned
\* nil returned on such a pod.
BothConditionsTrue(pod) ==
    /\ ~pod.getErr
    /\ pod.phase = "Running"
    /\ \A c \in ConditionTypes : c \in DOMAIN pod.conditions /\ pod.conditions[c] = "True"
C24_HealthyMeansBothConditions ==
    (tick.made /\ "pod" \in DOMAIN tick /\ "node" \in DOMAIN tick /\ tick.r.err = nil) =>
        BothConditionsTrue(tick.pod)

\* node 1 is regenerated and its controller-manager poll returned nil on a
\* Running pod with no condition entry at all
C24_Witness ==
    /\ tick.made /\ "pod" \in DOMAIN tick /\ "node" \in DOMAIN tick
    /\ tick.node = 1 /\ tick.step = "poll_controller_manager"
    /\ tick.pod.phase = "Running" /\ DOMAIN tick.pod.conditions = {}
    /\ Regenerated(1) /\ nodeErr[1] = nil

\* C25: updateKubeletConfigInternal cordons, drains, runs the kubelet-config
\* command, polls the kubelet service and uncordons, in this order. A node is
\* past the cordon only while cordoned; each step moves the node to the next
\* step exactly when it returned nil and ends the function otherwise, so no
\* drain follows a failed cordon and no command follows a failed drain; a
\* failed drain returns the error wrapped as the drain failure.
kubeletSucc(st) ==
    IF st = "idle" THEN "drain"
    ELSE IF st = "drain" THEN "command"
    ELSE IF st = "command" THEN "poll_kubelet"
    ELSE IF st = "poll_kubelet" THEN "uncordon"
    ELSE "ok"
KubeletOrderState ==
    \A i \in Nodes :
        /\ kubelet[i] \in {"drain", "command", "poll_kubelet", "uncordon"} =>
            unschedulable[i] /\ nodeErr[i] = nil
        /\ kubelet[i] = "failed" => nodeErr[i] # nil
        /\ kubelet[i] = "ok" => nodeErr[i] = nil /\ ~unschedulable[i]
KubeletOrderStep ==
    \A i \in Nodes :
        kubelet'[i] # kubelet[i] =>
            /\ kubelet[i] \notin {"ok", "failed"}
            /\ IF nodeErr'[i] # nil
               THEN kubelet'[i] = "failed"
               ELSE kubelet'[i] = kubeletSucc(kubelet[i])
            /\ (kubelet[i] = "idle" /\ kubelet'[i] = "failed") =>
                /\ nodeErr'[i] = <<ErrCordon, "cordon">>
                /\ unschedulable'[i] = unschedulable[i]
            /\ (kubelet[i] = "drain" /\ kubelet'[i] = "failed") =>
                nodeErr'[i] = <<ErrDrain, "drain">>
C25_KubeletStepOrder ==
    /\ []KubeletOrderState
    /\ [][KubeletOrderStep]_vars

\* the drain of node 2 failed: the node is cordoned, the function returned
\* the drain failure and the run halted with it, node 3 untouched
C25_Witness ==
    /\ kubelet[2] = "failed"
    /\ nodeErr[2] = <<ErrDrain, "drain">>
    /\ unschedulable[2]
    /\ Reconfigured(1)
    /\ kubelet[3] = "idle"

\* C26: updateKubeletConfigInternal uncordons a node only after a condition
\* call of its kubelet poll, made within the 2 minutes, read a status with
\* the running bit set and the restarting bit clear. A poll that returns on
\* any other status returns an error, the function returns it, and the node
\* stays cordoned; a poll whose calls never read such a status returns the
\* timeout error after the call at 2 minutes.
KubeletTickOf(i) ==
    /\ tick'.made /\ "st" \in DOMAIN tick'
    /\ tick'.node = i
    /\ tick'.el = elapsed[i]
KubeletPollStep ==
    \A i \in Nodes :
        (kubelet[i] = "poll_kubelet" /\ kubelet'[i] # "poll_kubelet") =>
            /\ KubeletTickOf(i)
            /\ tick'.el <= KubeletTimeout
            /\ kubelet'[i] = "uncordon" <=>
                (~tick'.st.sErr /\ tick'.st.running /\ ~tick'.st.restarting)
            /\ kubelet'[i] # "uncordon" =>
                /\ kubelet'[i] = "failed" /\ nodeErr'[i] # nil
                /\ unschedulable'[i] /\ unschedulable[i]
            /\ (~tick'.st.sErr /\ kubelet'[i] = "failed") =>
                /\ tick'.el = KubeletTimeout
                /\ nodeErr'[i] = errorsNew(ErrWaitTimeout)
UncordonStep ==
    \A i \in Nodes :
        (unschedulable[i] /\ ~unschedulable'[i]) =>
            /\ kubelet[i] = "uncordon"
            /\ tick.made /\ "st" \in DOMAIN tick /\ tick.node = i
            /\ ~tick.st.sErr /\ tick.st.running /\ ~tick.st.restarting
C26_UncordonOnlyAfterRunning ==
    /\ [][KubeletPollStep]_vars
    /\ [][UncordonStep]_vars

\* node 1 was uncordoned after its poll returned nil on the call at 2 minutes
C26_Witness ==
    /\ Reconfigured(1)
    /\ tick.made /\ "st" \in DOMAIN tick /\ tick.node = 1
    /\ tick.el = KubeletTimeout
    /\ tick.st.running /\ ~tick.st.restarting
    /\ kubelet[2] = "idle"

\* C27: in the kubelet status poll a condition call whose status read failed
\* counts as not ready and the poll goes on: the poll returns an error only
\* as the timeout, after the call made at 2 minutes.
C27_StatusReadErrorsSwallowed ==
    (tick.made /\ "st" \in DOMAIN tick /\ tick.r.err # nil) =>
        /\ tick.r.err = errorsNew(ErrWaitTimeout)
        /\ tick.el = KubeletTimeout

\* the first status read of node 1 failed: the poll returned that error at
\* once, the function returned it and the node stays cordoned
C27_Witness ==
    /\ tick.made /\ "st" \in DOMAIN tick /\ tick.node = 1
    /\ tick.st.sErr /\ tick.el = 0
    /\ tick.r = [next |-> "return", err |-> errorsNew(ErrSystemdStatus)]
    /\ kubelet[1] = "failed" /\ nodeErr[1] = errorsNew(ErrSystemdStatus)
    /\ unschedulable[1]
    /\ runErr = errorsNew(ErrSystemdStatus)

\* C28: readyToCompleteMigration is one step that makes at most one List
\* call and returns: with a nil client it returns the clientset error and
\* the accessor is not used; with a client it makes the List, and a failed
\* List is returned wrapped as the list failure with no machine read. The
\* step writes nothing (volumes and nodes are as before), and after an error
\* nothing more happens: there is no retry.
ValidateCompleteStep ==
    (phase = "ValidatingComplete" /\ runErr = nil) =>
        /\ phase' # "ValidatingComplete" \/ runErr' # nil
        /\ phase' = "ValidatingComplete" <=> runErr' # nil
        /\ pvs' = pvs /\ patchLog' = patchLog /\ pvList' = pvList /\ pvIdx' = pvIdx
        /\ unschedulable' = unschedulable /\ regen' = regen /\ kubelet' = kubelet
        /\ IF ~dynamicClient
           THEN /\ runErr' = errorsNew(ErrClientsetNotInitialized)
                /\ accessorUsed' = accessorUsed /\ machines' = machines
           ELSE /\ accessorUsed'
                /\ ~machines'.listed <=> runErr' = <<ErrListMachines, "list failed">>
                /\ ~machines'.listed => machines'.items = <<>>
ValidateCompleteNoRetry ==
    ~(phase = "ValidatingComplete" /\ runErr # nil)
C28_ValidateCompleteOneList ==
    /\ [][ValidateCompleteStep]_vars
    /\ [][ValidateCompleteNoRetry]_vars

\* the List failed: the wrapped error is returned, no machine was read, the
\* volumes are as they were
C28_Witness ==
    /\ phase = "ValidatingComplete" /\ dynamicClient /\ accessorUsed
    /\ runErr = <<ErrListMachines, "list failed">>
    /\ machines = NotListed
    /\ Len(pvs) = MaxPVs /\ pvs = pvs0

\* C29: waitForStaticPodReady called with a nil client, an empty pod name or
\* an empty namespace returns its precondition error at once: the error for
\* the nil client, else the one for the name and namespace; no Get is made
\* (the accessor is not used, no condition call took place) and no time
\* passes. A call is enabled only while the function has not returned.
WaitPreconditionFails ==
    ~dynamicClient \/ podKey.name = "" \/ podKey.namespace = ""
C29_PreconditionErrorAtOnce ==
    (phase \in {"CallWaitForStaticPod", "WaitForStaticPodReturned"} /\ WaitPreconditionFails) =>
        /\ ~tick.made /\ ~accessorUsed /\ elapsed[1] = 0
        /\ WaitReturned =>
            /\ runErr = IF ~dynamicClient THEN errorsNew(ErrClientsetNotInitialized)
                        ELSE errorsNew(ErrPodKeyRequired)
            /\ ~ENABLED CallWaitTick
        /\ WaitPolling => runErr = nil /\ ENABLED CallWaitTick

\* called with a client and a pod name but an empty namespace: returned the
\* error with no call made
C29_Witness ==
    /\ WaitReturned
    /\ dynamicClient /\ podKey.name # "" /\ podKey.namespace = ""
    /\ runErr = errorsNew(ErrPodKeyRequired)
    /\ ~tick.made /\ ~accessorUsed /\ elapsed[1] = 0

\* C30: the error regenerateControlPlaneManifestsInternal returns for a poll
\* that timed out tells which pod timed out: the API server poll's timeout is
\* returned as the API server rollout failure, the controller-manager poll's
\* timeout as an error with another message.
RegenPollTimedOut(step) ==
    /\ tick.made /\ "pod" \in DOMAIN tick /\ "node" \in DOMAIN tick
    /\ tick.step = step
    /\ tick.r.err = errorsNew(ErrWaitTimeout)
C30_TimeoutNamesPod ==
    /\ RegenPollTimedOut("poll_apiserver") =>
        nodeErr[tick.node] = <<ErrAPIServerRollout, ErrWaitTimeout>>
    /\ RegenPollTimedOut("poll_controller_manager") =>
        /\ nodeErr[tick.node] # <<ErrAPIServerRollout, ErrWaitTimeout>>
        /\ Head(nodeErr[tick.node]) # ErrAPIServerRollout

\* the API server of node 1 was seen healthy and its controller-manager poll
\* timed out: the function returned the API server rollout failure
C30_Witness ==
    /\ RegenPollTimedOut("poll_controller_manager") /\ tick.node = 1
    /\ regenLog[1] = {"command", "poll_apiserver"}
    /\ regen[1] = "failed"
    /\ nodeErr[1] = <<ErrAPIServerRollout, ErrWaitTimeout>>
    /\ runErr = nodeErr[1]

\* C31: a run holds at most one control plane node cordoned: at most one
\* node was cordoned by updateKubeletConfigInternal and not uncordoned since,
\* that node is the one the function is working on or failed on, every node
\* before it is uncordoned again and no node after it was touched; after a
\* run that returned nil no node is cordoned.
CordonedByRun == {i \in Nodes : unschedulable[i]}
C31_AtMostOneCordoned ==
    /\ Cardinality(CordonedByRun) <= 1
    /\ \A i \in CordonedByRun :
        /\ phase = "ReconfiguringKubelets"
        /\ kubelet[i] \in {"drain", "command", "poll_kubelet", "uncordon", "failed"}
        /\ \A j \in Nodes : j < i => kubelet[j] = "ok"
        /\ \A j \in Nodes : j > i => kubelet[j] = "idle"
    /\ (phase = "Done" /\ runErr = nil) => CordonedByRun = {}

\* node 1 was reconfigured and uncordoned, node 2 is cordoned and waits for
\* its kubelet, node 3 was not cordoned yet
C31_Witness ==
    /\ phase = "ReconfiguringKubelets"
    /\ Reconfigured(1)
    /\ kubelet[2] = "poll_kubelet" /\ elapsed[2] = PollInterval
    /\ CordonedByRun = {2}
    /\ kubelet[3] = "idle"

\* C32: validateExternalCloudProviderConfig called on a state marked complete
\* (s.CCMMigrationComplete) returns what it returns on the same state with
\* the other value of ExternalCCMDeployed: never the "migration in progress"
\* error, and nil when the five other checks pass, the external CCM being
\* deployed or not.
OtherChecksPass(s) ==
    /\ s.External
    /\ s.CSIMigrationSupported
    /\ s.InTreeCloudProviderEnabled
    /\ s.Vsphere => s.CSIConfig # ""
    /\ s.StaticWorkersHosts = 0
WithDeployed(s, b) == [s EXCEPT !.ExternalCCMDeployed = b]
C32_CompleteIgnoresDeployed ==
    (phase = "ValidateStartReturned" /\ cfg.CCMMigrationComplete) =>
        /\ runErr # errorsNew(ErrInProgress)
        /\ runErr = validateExternalCloudProviderConfig(WithDeployed(cfg, TRUE))
        /\ runErr = validateExternalCloudProviderConfig(WithDeployed(cfg, FALSE))
        /\ OtherChecksPass(cfg) <=> runErr = nil

\* marked complete, the external CCM deployed, a vSphere cluster with its
\* CSI configuration: the validation returned nil
C32_Witness ==
    /\ phase = "ValidateStartReturned"
    /\ cfg.CCMMigrationComplete /\ cfg.ExternalCCMDeployed
    /\ cfg.Vsphere /\ OtherChecksPass(cfg)
    /\ runErr = nil

\* C33: while regenerateControlPlaneManifestsInternal works on a node, each
\* poll asks for that node's own static pod, kube-apiserver-<hostname> then
\* kube-controller-manager-<hostname>, in kube-system; what the Get returns
\* is the state of that pod, and the poll returns nil exactly when that pod
\* was seen healthy, whatever the state of the other nodes' pods.
StorePollReturned == tick.made /\ "own" \in DOMAIN tick /\ dynamicClient
C33_PollsOwnPods ==
    StorePollReturned =>
        /\ tick.key.namespace = "kube-system"
        /\ tick.key.name = (IF tick.step = "poll_apiserver" THEN "kube-apiserver-"
                            ELSE "kube-controller-manager-") \o hostname(tick.node)
        /\ tick.pod = tick.own
        /\ tick.r.err = nil <=> staticPodReady(tick.own)
        /\ tick.r.err # nil =>
            /\ tick.r.err = errorsNew(ErrWaitTimeout)
            /\ regen[tick.node] = "failed"
        /\ regen[tick.node] = "failed" => ~staticPodReady(tick.own)

\* node 2's controller-manager pod was never seen healthy while the other
\* nodes' pods were healthy at the last call: the poll timed out
C33_Witness ==
    /\ StorePollReturned
    /\ tick.node = 2 /\ tick.step = "poll_controller_manager"
    /\ tick.key.name = "kube-controller-manager-cp-2"
    /\ tick.rest = HealthyPod /\ tick.own.phase = "Pending"
    /\ regen[2] = "failed"
    /\ nodeErr[2] = <<ErrAPIServerRollout, ErrWaitTimeout>>

\* C34: migrateOpenStackPVs called with a nil client returns the "dynamic
\* client is not initialized" error without using the accessor, and with a
\* List that fails returns the wrapped list error; in both cases no Patch was
\* sent and the volumes are as they were. A listed volume without the
\* provisioner annotation (with no annotation at all, too) is never patched
\* and is never the volume at which the function returned an error.
Unannotated(pv) == provisionedByAnnotation \notin DOMAIN pv.annotations
NoPatchSent == patchLog = <<>> /\ pvs = pvs0
C34_NoPatchOnErrorOrUnannotated ==
    /\ ~dynamicClient =>
        /\ phase = "MigratingVolumes"
        /\ runErr \in {nil, errorsNew(ErrDynamicClientNotInitialized)}
        /\ runErr = nil => ENABLED MigrateListPVs
        /\ runErr # nil => ~ENABLED NextAnnotator
        /\ NoPatchSent /\ ~accessorUsed /\ pvList = <<>>
    /\ (dynamicClient /\ runErr # nil /\ pvIdx = 0) =>
        /\ runErr = <<ErrListPVs, "list failed">>
        /\ phase = "MigratingVolumes"
        /\ NoPatchSent /\ pvList = <<>>
        /\ ~ENABLED NextAnnotator
    /\ \A k \in 1..Len(pvs0) :
        Unannotated(pvs0[k]) =>
            /\ pvs[k] = pvs0[k]
            /\ \A j \in 1..Len(patchLog) : patchLog[j].index # k
            /\ runErr # nil => pvIdx # k
            /\ (runErr = nil /\ pvIdx = k) => ENABLED MigratePVStep
    /\ (\A k \in 1..Len(pvs0) : Unannotated(pvs0[k])) =>
        /\ NoPatchSent
        /\ (dynamicClient /\ pvIdx > 0) => runErr = nil

\* called with a nil client on three volumes, one without any annotation
\* and one of the in-tree provisioner: the error, and no Patch
C34_Witness ==
    /\ ~dynamicClient
    /\ runErr = errorsNew(ErrDynamicClientNotInitialized)
    /\ Len(pvs) = 3
    /\ DOMAIN pvs[1].annotations = {}
    /\ InTreeVolumes(pvs) = {2, 3}
    /\ NoPatchSent

====
